---- MODULE Spec2Model ----
(***************************************************************************)
(* Model of packages/core/src/core/openAICompatibleContentGenerator.ts:    *)
(* the OpenAI-compatible content generator (request conversion, the        *)
(* non-streaming call, the SSE streaming generator) and the response view  *)
(* OpenAIGenerateContentResponse.                                          *)
(*                                                                         *)
(* Text is a sequence of one-character strings; the bytes of a response    *)
(* body are a sequence of ASCII codes.  A JavaScript value is a record     *)
(* with a tag t: "str" (v is the text), "undefined" or "null".             *)
(* JSON text is abstracted: one character stands for the token run of one  *)
(* choice object, between the braces of the enclosing payload object.      *)
(***************************************************************************)
EXTENDS Integers, Sequences, FiniteSets, TLC

\* ---------------------------------------------------------------- bounds
MaxFrames == 3
MaxEntries == 2

\* ------------------------------------------------------ JavaScript values
JsStr(s) == [t |-> "str", v |-> s]
JsUndefined == [t |-> "undefined", v |-> <<>>]
JsNull == [t |-> "null", v |-> <<>>]

\* ------------------------------------------------------------ text helpers
NL == "\n"
Separator == <<NL, NL>>
DataPrefix == <<"d", "a", "t", "a", ":", " ">>
DoneSentinel == <<"[", "D", "O", "N", "E", "]">>
Whitespace == {" ", NL}

RECURSIVE Concat(_)
Concat(ss) == IF ss = <<>> THEN <<>> ELSE Head(ss) \o Concat(Tail(ss))

\* String.prototype.startsWith
StartsWith(s, p) == Len(s) >= Len(p) /\ SubSeq(s, 1, Len(p)) = p

\* String.prototype.substring(n): the text from (0-based) index n on
Substring(s, n) == SubSeq(s, n + 1, Len(s))

\* String.prototype.trim
RECURSIVE TrimStart(_)
TrimStart(s) ==
  IF s # <<>> /\ Head(s) \in Whitespace THEN TrimStart(Tail(s)) ELSE s

RECURSIVE TrimEnd(_)
TrimEnd(s) ==
  IF s # <<>> /\ s[Len(s)] \in Whitespace
  THEN TrimEnd(SubSeq(s, 1, Len(s) - 1))
  ELSE s

Trim(s) == TrimEnd(TrimStart(s))

\* index of the first occurrence of the separator in s, 0 when there is none
SepIndex(s) ==
  LET hits == {i \in 1..(Len(s) - 1) : s[i] = NL /\ s[i + 1] = NL}
  IN IF hits = {} THEN 0 ELSE CHOOSE i \in hits : \A j \in hits : i <= j

\* chunk.split('\n\n'): left to right, non-overlapping; always at least one
\* segment, the last one being whatever follows the last separator
RECURSIVE Split(_)
Split(s) ==
  LET i == SepIndex(s)
  IN IF i = 0
     THEN <<s>>
     ELSE <<SubSeq(s, 1, i - 1)>> \o Split(SubSeq(s, i + 2, Len(s)))

\* Join with an element that is not a string rendered as String(x) does
RECURSIVE JoinUndefinedAsText(_)
JoinUndefinedAsText(vals) ==
  IF vals = <<>> THEN <<>>
  ELSE (IF Head(vals).t = "str" THEN Head(vals).v
        ELSE <<"u", "n", "d", "e", "f", "i", "n", "e", "d">>)
       \o JoinUndefinedAsText(Tail(vals))

\* Array.prototype.join(''): undefined and null elements count as ''
RECURSIVE Join(_)
Join(vals) ==
  IF vals = <<>> THEN <<>>
  ELSE (IF Head(vals).t = "str" THEN Head(vals).v ELSE <<>>) \o Join(Tail(vals))

\* ------------------------------------------------------- bytes and decoding
Chars ==
  {"d", "a", "t", ":", " ", NL, "[", "]", "D", "O", "N", "E", "{", "}",
   "h", "l", "f", "s", "H", "S", "F", "b", "o", "m"}

CharCode(c) ==
  CASE c = "d" -> 100 [] c = "a" -> 97 [] c = "t" -> 116 [] c = ":" -> 58
    [] c = " " -> 32 [] c = NL -> 10 [] c = "[" -> 91 [] c = "]" -> 93
    [] c = "D" -> 68 [] c = "O" -> 79 [] c = "N" -> 78 [] c = "E" -> 69
    [] c = "{" -> 123 [] c = "}" -> 125 [] c = "h" -> 104 [] c = "l" -> 108
    [] c = "f" -> 102 [] c = "s" -> 115 [] c = "H" -> 72 [] c = "S" -> 83
    [] c = "F" -> 70 [] c = "b" -> 98 [] c = "o" -> 111 [] c = "m" -> 109

\* what the server does: text to bytes
ByteOfChar == [c \in Chars |-> CharCode(c)]

Encode(s) == [i \in 1..Len(s) |-> ByteOfChar[s[i]]]

\* the character of each byte the model uses
CharOfByte ==
  [b \in {ByteOfChar[c] : c \in Chars} |->
     CHOOSE c \in Chars : ByteOfChar[c] = b]

\* new TextDecoder().decode(value), on ASCII bytes
decode(bytes) == [i \in 1..Len(bytes) |-> CharOfByte[bytes[i]]]

\* ------------------------------------------------------- payloads and JSON
\* a JavaScript object with the one property the code reads, content
JsObj(content) == [t |-> "obj", v |-> <<>>, content |-> content]

StopText == <<"s", "t", "o", "p">>
LengthText == <<"l", "e", "n", "g", "t", "h">>

\* the characters that stand for one choice object each
DeltaSyms == {"h", "l", "f", "s"}
MessageSyms == {"H", "S", "F"}
ChoiceSyms == DeltaSyms \cup MessageSyms

\* the choice object a character stands for: streaming choices carry delta,
\* completion choices carry message; f and F carry no content
ChoiceOf(c) ==
  CASE c = "h" -> [index |-> 0, delta |-> JsObj(JsStr(<<"H", "e">>)),
                   message |-> JsUndefined, finish_reason |-> JsNull]
    [] c = "l" -> [index |-> 0, delta |-> JsObj(JsStr(<<"l", "l", "o">>)),
                   message |-> JsUndefined, finish_reason |-> JsStr(StopText)]
    [] c = "f" -> [index |-> 0, delta |-> JsObj(JsUndefined),
                   message |-> JsUndefined, finish_reason |-> JsStr(StopText)]
    [] c = "s" -> [index |-> 1, delta |-> JsObj(JsStr(<<"x">>)),
                   message |-> JsUndefined, finish_reason |-> JsStr(LengthText)]
    [] c = "H" -> [index |-> 0, delta |-> JsUndefined,
                   message |-> JsObj(JsStr(<<"h", "i">>)),
                   finish_reason |-> JsStr(StopText)]
    [] c = "S" -> [index |-> 1, delta |-> JsUndefined,
                   message |-> JsObj(JsStr(<<"y", "o">>)),
                   finish_reason |-> JsStr(LengthText)]
    [] c = "F" -> [index |-> 0, delta |-> JsUndefined,
                   message |-> JsObj(JsUndefined),
                   finish_reason |-> JsStr(StopText)]

\* results of operations that can throw
Ok(x) == [ok |-> TRUE, value |-> x, error |-> "none"]
Throw(e) == [ok |-> FALSE, value |-> <<>>, error |-> e]

\* JSON.parse: surrounding whitespace is allowed, then an object whose
\* choices are the choice objects between the braces; anything else (a
\* truncated object, an empty text) is a SyntaxError
JsonParse(text) ==
  LET t == Trim(text)
  IN IF /\ Len(t) >= 2
        /\ t[1] = "{"
        /\ t[Len(t)] = "}"
        /\ \A i \in 2..(Len(t) - 1) : t[i] \in ChoiceSyms
     THEN Ok([choices |-> [i \in 1..(Len(t) - 2) |-> ChoiceOf(t[i + 1])]])
     ELSE Throw("SyntaxError")

\* what the server does: a payload to its JSON text
JsonStringify(data) ==
  <<"{">>
  \o [i \in 1..Len(data.choices) |->
        CHOOSE c \in ChoiceSyms : ChoiceOf(c) = data.choices[i]]
  \o <<"}">>

\* --------------------------------------------- OpenAIGenerateContentResponse
\* constructor: the view keeps the payload it is given
OpenAIGenerateContentResponse(response) == [data |-> response]

\* candidates built from the first choice alone
candidatesFirstOnly(view) ==
  LET choices == view.data.choices
  IN IF choices = <<>>
     THEN [ok |-> TRUE, value |-> <<>>, error |-> "none"]
     ELSE IF choices[1].message.t # "obj"
     THEN [ok |-> FALSE, value |-> <<>>, error |-> "TypeError"]
     ELSE [ok |-> TRUE, error |-> "none",
           value |-> <<[index |-> choices[1].index,
                        content |-> [role |-> "model",
                                     parts |-> <<[text |-> choices[1].message.content]>>],
                        finishReason |-> choices[1].finish_reason,
                        citationMetadata |-> [citationSources |-> <<>>]]>>]

\* get candidates(): choice.message.content throws on a choice without message
candidates(view) ==
  LET choices == view.data.choices
  IN IF \E i \in 1..Len(choices) : choices[i].message.t # "obj"
     THEN Throw("TypeError")
     ELSE Ok([i \in 1..Len(choices) |->
               [index |-> choices[i].index,
                content |-> [role |-> "model",
                             parts |-> <<[text |-> choices[i].message.content]>>],
                finishReason |-> choices[i].finish_reason,
                citationMetadata |-> [citationSources |-> <<>>]]])

\* get text(): the first choice's message content; throws without a first
\* choice or without its message
text(view) ==
  LET choices == view.data.choices
  IN IF choices = <<>> \/ choices[1].message.t # "obj"
     THEN Throw("TypeError")
     ELSE Ok(choices[1].message.content)

\* the remap left out: the choices are passed on as they came
RemapDeltaNoRename(data) == [choices |-> data.choices]

\* the streaming remap { ...data, choices: data.choices.map(choice =>
\* ({ ...choice, message: choice.delta })) }
RemapDelta(data) ==
  [choices |-> [i \in 1..Len(data.choices) |->
     [index |-> data.choices[i].index,
      delta |-> data.choices[i].delta,
      message |-> data.choices[i].delta,
      finish_reason |-> data.choices[i].finish_reason]]]

\* ------------------------------------------------------ request conversion
JsArr(s) == [t |-> "arr", v |-> s]

\* contentsToParts: a bare string becomes one user entry with one text part
contentsToParts(contents) ==
  IF contents.t = "str"
  THEN <<[role |-> "user", parts |-> JsArr(<<[text |-> contents]>>)]>>
  ELSE contents.v

\* convertToOpenAIMessages: one message per entry, pushed in order
convertToOpenAIMessages(contents) ==
  [i \in 1..Len(contents) |->
     LET content == contents[i]
         parts == IF content.parts.t = "arr" THEN content.parts.v ELSE <<>>
     IN [role |-> IF content.role = "model" THEN "assistant" ELSE "user",
         content |-> Join([j \in 1..Len(parts) |-> parts[j].text])]]

\* the body of the POST to {endpoint}/chat/completions
RequestBody(request, stream) ==
  [model |-> "model",
   messages |-> convertToOpenAIMessages(contentsToParts(request.contents)),
   temperature |-> IF request.generationConfig.t = "obj"
                   THEN request.generationConfig.temperature ELSE JsUndefined,
   max_tokens |-> IF request.generationConfig.t = "obj"
                  THEN request.generationConfig.maxOutputTokens ELSE JsUndefined,
   stream |-> stream]

\* ------------------------------------------------------- inputs: requests
TextA == <<"a">>
TextBC == <<"b", "c">>

\* the parts arrays an entry can carry: absent, empty, one part, two parts in
\* either order, and a part without text between two parts with text
PartsCatalog ==
  {JsUndefined,
   JsArr(<<>>),
   JsArr(<<[text |-> JsStr(TextA)]>>),
   JsArr(<<[text |-> JsStr(TextA)], [text |-> JsStr(TextBC)]>>),
   JsArr(<<[text |-> JsStr(TextBC)], [text |-> JsStr(TextA)]>>),
   JsArr(<<[text |-> JsStr(TextA)], [text |-> JsUndefined],
           [text |-> JsStr(TextBC)]>>)}

Roles == {"user", "model", "function"}

Entries == [role : Roles, parts : PartsCatalog]

SeqsUpTo(S, n) == UNION {[1..k -> S] : k \in 0..n}

ContentsAll ==
  {JsStr(TextA), JsStr(<<>>)} \cup {JsArr(es) : es \in SeqsUpTo(Entries, MaxEntries)}

NoConfig == [t |-> "undefined", v |-> <<>>, temperature |-> JsUndefined,
             maxOutputTokens |-> JsUndefined]
SomeConfig == [t |-> "obj", v |-> <<>>, temperature |-> JsStr(<<"1">>),
               maxOutputTokens |-> JsStr(<<"8">>)]

RequestsAll == [contents : ContentsAll, generationConfig : {NoConfig}]

\* the requests of the call scenarios
Requests ==
  {[contents |-> JsArr(<<[role |-> "user",
                          parts |-> JsArr(<<[text |-> JsStr(TextA)]>>)],
                         [role |-> "model",
                          parts |-> JsArr(<<[text |-> JsStr(TextBC)]>>)]>>),
    generationConfig |-> SomeConfig]}

\* ------------------------------------------- inputs: what the server sends
Payload(syms) == [choices |-> [i \in 1..Len(syms) |-> ChoiceOf(syms[i])]]

\* one SSE frame: an event with a payload, an event whose JSON lost its
\* closing brace, or the [DONE] sentinel
EventFrame(syms) == [kind |-> "event", data |-> Payload(syms)]
MalformedFrame(syms) == [kind |-> "malformed", data |-> Payload(syms)]
DoneFrame == [kind |-> "done", data |-> Payload(<<>>)]

FrameCatalog ==
  {EventFrame(<<"h">>), EventFrame(<<"l">>), EventFrame(<<"f", "s">>),
   MalformedFrame(<<"h">>), DoneFrame}

\* the JSON text the server writes for a frame or a body
FrameJson(fr) ==
  LET json == JsonStringify(fr.data)
  IN CASE fr.kind = "event" -> json
       [] fr.kind = "malformed" -> SubSeq(json, 1, Len(json) - 1)
       [] fr.kind = "done" -> DoneSentinel

\* frames that carry no data segment: an SSE comment, an empty keep-alive
\* frame, and a data field written without the space after the colon
CommentFrame == [kind |-> "comment", data |-> Payload(<<>>)]
EmptyFrame == [kind |-> "empty", data |-> Payload(<<>>)]
NoSpaceFrame == [kind |-> "nospace", data |-> Payload(<<"h">>)]

CommentText == <<":", " ", "a">>
NoSpacePrefix == <<"d", "a", "t", "a", ":">>

\* data: <json>\n\n
FrameText(fr) ==
  CASE fr.kind = "comment" -> CommentText \o Separator
    [] fr.kind = "empty" -> Separator
    [] fr.kind = "nospace" -> NoSpacePrefix \o JsonStringify(fr.data) \o Separator
    [] OTHER -> DataPrefix \o FrameJson(fr) \o Separator

StreamText(fs) == Concat([i \in 1..Len(fs) |-> FrameText(fs[i])])

\* the byte offsets at which one frame ends and the next begins
Boundaries(fs) ==
  {Len(StreamText(SubSeq(fs, 1, k))) : k \in 1..(Len(fs) - 1)}

\* how the transport may cut the byte stream into reads: at any set of frame
\* boundaries, and besides at no or at one arbitrary offset
CutSets(fs) ==
  {A \cup X : A \in SUBSET Boundaries(fs),
              X \in {{}} \cup {{c} : c \in 1..(Len(StreamText(fs)) - 1)}}

SetMax(S) == CHOOSE x \in S : \A y \in S : y <= x

RECURSIVE Chunks(_, _)
Chunks(bytes, cuts) ==
  IF cuts = {}
  THEN IF bytes = <<>> THEN <<>> ELSE <<bytes>>
  ELSE LET c == SetMax(cuts)
       IN Chunks(SubSeq(bytes, 1, c), cuts \ {c})
          \o <<SubSeq(bytes, c + 1, Len(bytes))>>

StreamBody(chunks) == [t |-> "stream", chunks |-> chunks]
NullBody == [t |-> "null", chunks |-> <<>>]

OkResponse(body) == [status |-> 200, statusText |-> "OK", body |-> body]

BoomText == <<"b", "o", "o", "m">>

ErrorResponses ==
  {[status |-> 500, statusText |-> "Internal Server Error", body |-> b] :
     b \in {StreamBody(<<Encode(BoomText)>>), NullBody}}
  \cup {[status |-> 404, statusText |-> "Not Found",
         body |-> StreamBody(<<Encode(BoomText)>>)]}

\* completion bodies the server can send to the non-streaming call
BodyCatalog ==
  {EventFrame(<<"H">>), EventFrame(<<"H", "S">>), EventFrame(<<"F">>),
   EventFrame(<<>>), MalformedFrame(<<"H">>)}

\* ------------------------------------------------------------ the response
\* response.ok taken to fail on server errors only
ResponseOkBelow500(resp) == resp.status < 500

\* response.ok
ResponseOk(resp) == resp.status \in 200..299

\* await response.text(): the whole body, decoded
ResponseText(resp) == decode(Concat(resp.body.chunks))

\* await response.json()
ResponseJson(resp) == JsonParse(ResponseText(resp))

\* ------------------------------------------------------------------ errors
NoError == [name |-> "none", text |-> "", status |-> 0, statusText |-> "",
            body |-> <<>>]

\* new Error(`Failed to fetch from local LLM: ${status} ${statusText} ${text}`)
FetchError(resp) ==
  [name |-> "Error", text |-> "Failed to fetch from local LLM:",
   status |-> resp.status, statusText |-> resp.statusText,
   body |-> ResponseText(resp)]

\* new Error('No response body')
NoBodyError ==
  [name |-> "Error", text |-> "No response body", status |-> 0,
   statusText |-> "", body |-> <<>>]

\* the SyntaxError of JSON.parse and the TypeError of a property read
Thrown(name) ==
  [name |-> name, text |-> "", status |-> 0, statusText |-> "", body |-> <<>>]

\* ------------------------------------------------------------------- state
VARIABLES
  op,            \* the call made on the adapter: "none" before any call
  request,       \* the caller's request of that call
  requests,      \* the bodies of the HTTP requests issued, in order
  response,      \* the transport's response to the request
  frames,        \* what the server wrote into the response body
  wholeFrames,   \* the transport delivers the body in reads of whole frames
  result,        \* how the call's promise settled, and the error if it rejected
  returned,      \* the views generateContent resolved with
  gen,           \* the streaming generator: state, how it exited, its error
  lines,         \* segments of the current read the for loop has not reached
  reads,         \* chunks of the body stream the transport has yet to deliver
  readerLocked,  \* the body stream is locked to a reader
  readsIssued,   \* number of reader.read() calls made
  yielded,       \* the views the generator has yielded, in order
  lastPull,      \* how the consumer's latest next() or return() settled
  counted,       \* the responses countTokens resolved with
  embed,         \* the embedContent calls made and how the latest ended
  peer,          \* a second streaming sequence obtained from the same adapter
  iters          \* the iterators obtained from the returned view

\* the state outside the two content-generation calls
others == <<counted, embed, peer, iters>>

vars ==
  <<op, request, requests, response, frames, wholeFrames, result, returned, gen, lines,
    reads, readerLocked, readsIssued, yielded, lastPull, counted, embed, peer,
    iters>>

NoRequest == [contents |-> JsUndefined, generationConfig |-> NoConfig]
NoResponse == [status |-> 0, statusText |-> "", body |-> NullBody]

Pending == [state |-> "none", error |-> NoError]
Resolved == [state |-> "returned", error |-> NoError]
Rejected(e) == [state |-> "threw", error |-> e]

NoGen == [state |-> "none", exit |-> "none", error |-> NoError]

\* no embedContent call made yet
NoEmbed == [calls |-> 0, input |-> JsUndefined, outcome |-> "none", error |-> NoError]

\* no second sequence obtained yet
NoPeer ==
  [state |-> "none", exit |-> "none", error |-> NoError, chunks |-> <<>>,
   reads |-> <<>>, lines |-> <<>>, readerLocked |-> FALSE, readsIssued |-> 0,
   yielded |-> <<>>]

Init ==
  /\ op = "none"
  /\ request = NoRequest
  /\ requests = <<>>
  /\ response = NoResponse
  /\ frames = <<>>
  /\ wholeFrames = TRUE
  /\ result = Pending
  /\ returned = <<>>
  /\ gen = NoGen
  /\ lines = <<>>
  /\ reads = <<>>
  /\ readerLocked = FALSE
  /\ readsIssued = 0
  /\ yielded = <<>>
  /\ lastPull = "none"
  /\ counted = <<>>
  /\ embed = NoEmbed
  /\ peer = NoPeer
  /\ iters = <<>>

\* ------------------------------------------------------- generateContent
\* lines 99-130: one fetch; a non-ok status rejects with the status, the
\* status text and the body text; otherwise the body is parsed and wrapped
generateContent(req, resp, sent, whole) ==
  /\ op = "none"
  /\ op' = "generateContent"
  /\ request' = req
  /\ requests' = Append(requests, RequestBody(req, FALSE))
  /\ response' = resp
  /\ frames' = sent
  /\ wholeFrames' = whole
  /\ IF ~ResponseOk(resp)
     THEN /\ result' = Rejected(FetchError(resp))
          /\ returned' = returned
     ELSE LET data == ResponseJson(resp)
          IN IF data.ok
             THEN /\ result' = Resolved
                  /\ returned' =
                       Append(returned, OpenAIGenerateContentResponse(data.value))
             ELSE /\ result' = Rejected(Thrown(data.error))
                  /\ returned' = returned
  /\ UNCHANGED <<gen, lines, reads, readerLocked, readsIssued, yielded, lastPull>>
  /\ UNCHANGED others

\* generateContentStream testing the body before the status
generateContentStreamBodyFirst(req, resp, sent, whole) ==
  /\ op = "none"
  /\ op' = "generateContentStream"
  /\ request' = req
  /\ requests' = Append(requests, RequestBody(req, TRUE))
  /\ response' = resp
  /\ frames' = sent
  /\ wholeFrames' = whole
  /\ IF resp.body.t = "null"
     THEN /\ result' = Rejected(NoBodyError)
          /\ UNCHANGED <<gen, reads>>
     ELSE IF ~ResponseOk(resp)
     THEN /\ result' = Rejected(FetchError(resp))
          /\ UNCHANGED <<gen, reads>>
     ELSE /\ result' = Resolved
          /\ gen' = [state |-> "suspendedStart", exit |-> "none",
                     error |-> NoError]
          /\ reads' = resp.body.chunks
  /\ UNCHANGED <<returned, lines, readerLocked, readsIssued, yielded, lastPull>>
  /\ UNCHANGED others

\* ------------------------------------------------- generateContentStream
\* lines 132-165 and 197: one fetch; a non-ok status or a missing body
\* rejects; otherwise the generator object is returned, not yet started
generateContentStream(req, resp, sent, whole) ==
  /\ op = "none"
  /\ op' = "generateContentStream"
  /\ request' = req
  /\ requests' = Append(requests, RequestBody(req, TRUE))
  /\ response' = resp
  /\ frames' = sent
  /\ wholeFrames' = whole
  /\ IF ~ResponseOk(resp)
     THEN /\ result' = Rejected(FetchError(resp))
          /\ UNCHANGED <<gen, reads>>
     ELSE IF resp.body.t = "null"
     THEN /\ result' = Rejected(NoBodyError)
          /\ UNCHANGED <<gen, reads>>
     ELSE /\ result' = Resolved
          /\ gen' = [state |-> "suspendedStart", exit |-> "none",
                     error |-> NoError]
          /\ reads' = resp.body.chunks
  /\ UNCHANGED <<returned, lines, readerLocked, readsIssued, yielded, lastPull>>
  /\ UNCHANGED others

\* ------------------------------------------------------- the generator body
\* RunLines without the [DONE] test of line 180
RECURSIVE RunLinesNoSentinel(_)
RunLinesNoSentinel(ls) ==
  IF ls = <<>>
  THEN [kind |-> "read", view |-> <<>>, rest |-> <<>>, error |-> NoError]
  ELSE LET line == Head(ls)
       IN IF StartsWith(line, DataPrefix)
          THEN LET data == JsonParse(Substring(line, Len(DataPrefix)))
               IN IF data.ok
                  THEN [kind |-> "yield",
                        view |-> OpenAIGenerateContentResponse(
                                   RemapDelta(data.value)),
                        rest |-> Tail(ls), error |-> NoError]
                  ELSE [kind |-> "throw", view |-> <<>>, rest |-> <<>>,
                        error |-> Thrown(data.error)]
          ELSE RunLinesNoSentinel(Tail(ls))

\* RunLines with break in the place of the return of line 181: [DONE] ends the
\* segments of this read only
RECURSIVE RunLinesDoneBreaks(_)
RunLinesDoneBreaks(ls) ==
  IF ls = <<>>
  THEN [kind |-> "read", view |-> <<>>, rest |-> <<>>, error |-> NoError]
  ELSE LET line == Head(ls)
       IN IF StartsWith(line, DataPrefix)
          THEN LET json == Substring(line, Len(DataPrefix))
               IN IF Trim(json) = DoneSentinel
                  THEN [kind |-> "read", view |-> <<>>, rest |-> <<>>,
                        error |-> NoError]
                  ELSE LET data == JsonParse(json)
                       IN IF data.ok
                          THEN [kind |-> "yield",
                                view |-> OpenAIGenerateContentResponse(
                                           RemapDelta(data.value)),
                                rest |-> Tail(ls), error |-> NoError]
                          ELSE [kind |-> "throw", view |-> <<>>, rest |-> <<>>,
                                error |-> Thrown(data.error)]
          ELSE RunLinesDoneBreaks(Tail(ls))

\* RunLines taking a non-empty segment without the prefix for an error
RECURSIVE RunLinesRejectsOther(_)
RunLinesRejectsOther(ls) ==
  IF ls = <<>>
  THEN [kind |-> "read", view |-> <<>>, rest |-> <<>>, error |-> NoError]
  ELSE LET line == Head(ls)
       IN IF StartsWith(line, DataPrefix)
          THEN LET json == Substring(line, Len(DataPrefix))
               IN IF Trim(json) = DoneSentinel
                  THEN [kind |-> "return", view |-> <<>>, rest |-> <<>>,
                        error |-> NoError]
                  ELSE LET data == JsonParse(json)
                       IN IF data.ok
                          THEN [kind |-> "yield",
                                view |-> OpenAIGenerateContentResponse(
                                           RemapDelta(data.value)),
                                rest |-> Tail(ls), error |-> NoError]
                          ELSE [kind |-> "throw", view |-> <<>>, rest |-> <<>>,
                                error |-> Thrown(data.error)]
          ELSE IF line = <<>>
               THEN RunLinesRejectsOther(Tail(ls))
               ELSE [kind |-> "throw", view |-> <<>>, rest |-> <<>>,
                     error |-> Thrown("Error")]

\* RunLines with the exception of JSON.parse caught and the segment skipped
RECURSIVE RunLinesSkipBad(_)
RunLinesSkipBad(ls) ==
  IF ls = <<>>
  THEN [kind |-> "read", view |-> <<>>, rest |-> <<>>, error |-> NoError]
  ELSE LET line == Head(ls)
       IN IF StartsWith(line, DataPrefix)
          THEN LET json == Substring(line, Len(DataPrefix))
               IN IF Trim(json) = DoneSentinel
                  THEN [kind |-> "return", view |-> <<>>, rest |-> <<>>,
                        error |-> NoError]
                  ELSE LET data == JsonParse(json)
                       IN IF data.ok
                          THEN [kind |-> "yield",
                                view |-> OpenAIGenerateContentResponse(
                                           RemapDelta(data.value)),
                                rest |-> Tail(ls), error |-> NoError]
                          ELSE RunLinesSkipBad(Tail(ls))
          ELSE RunLinesSkipBad(Tail(ls))

\* lines 177-193: run the for loop over the segments not yet reached, up to
\* the next yield, return or throw, or to the end of the segments
RECURSIVE RunLines(_)
RunLines(ls) ==
  IF ls = <<>>
  THEN [kind |-> "read", view |-> <<>>, rest |-> <<>>, error |-> NoError]
  ELSE LET line == Head(ls)
       IN IF StartsWith(line, DataPrefix)
          THEN LET json == Substring(line, Len(DataPrefix))
               IN IF Trim(json) = DoneSentinel
                  THEN [kind |-> "return", view |-> <<>>, rest |-> <<>>,
                        error |-> NoError]
                  ELSE LET data == JsonParse(json)
                       IN IF data.ok
                          THEN [kind |-> "yield",
                                view |-> OpenAIGenerateContentResponse(
                                           RemapDelta(data.value)),
                                rest |-> Tail(ls), error |-> NoError]
                          ELSE [kind |-> "throw", view |-> <<>>, rest |-> <<>>,
                                error |-> Thrown(data.error)]
          ELSE RunLines(Tail(ls))

\* lines 167-195 run to the end by a consumer that keeps pulling: the views
\* yielded and the way the generator ends, from the segments ls still held and
\* the chunks still to be read
RECURSIVE ConsumeLines(_, _, _)
ConsumeLines(ls, chunks, views) ==
  LET r == RunLines(ls)
  IN CASE r.kind = "yield" -> ConsumeLines(r.rest, chunks, Append(views, r.view))
       [] r.kind = "return" -> [views |-> views, exit |-> "sentinel", error |-> NoError]
       [] r.kind = "throw" -> [views |-> views, exit |-> "error", error |-> r.error]
       [] r.kind = "read" ->
            IF chunks = <<>>
            THEN [views |-> views, exit |-> "eos", error |-> NoError]
            ELSE ConsumeLines(Split(decode(Head(chunks))), Tail(chunks), views)

Consume(chunks) == ConsumeLines(<<>>, chunks, <<>>)

\* Advance reading ahead: the next reader.read() issued at every yield
AdvancePrefetch(ls) ==
  LET r == RunLines(ls)
  IN CASE r.kind = "yield" ->
            /\ gen' = [gen EXCEPT !.state = "suspendedYield"]
            /\ yielded' = Append(yielded, r.view)
            /\ lines' = r.rest
            /\ readsIssued' = readsIssued + 1
            /\ lastPull' = "value"
       [] r.kind = "return" ->
            /\ gen' = [gen EXCEPT !.state = "completed", !.exit = "sentinel"]
            /\ lines' = <<>>
            /\ lastPull' = "done"
            /\ UNCHANGED <<yielded, readsIssued>>
       [] r.kind = "throw" ->
            /\ gen' = [gen EXCEPT !.state = "completed", !.exit = "error",
                                  !.error = r.error]
            /\ lines' = <<>>
            /\ lastPull' = "threw"
            /\ UNCHANGED <<yielded, readsIssued>>
       [] r.kind = "read" ->
            /\ gen' = [gen EXCEPT !.state = "awaitingRead"]
            /\ lines' = <<>>
            /\ readsIssued' = readsIssued + 1
            /\ yielded' = yielded
            /\ lastPull' = "pending"

\* the generator runs from where it stands to its next suspension or its end
Advance(ls) ==
  LET r == RunLines(ls)
  IN CASE r.kind = "yield" ->
            /\ gen' = [gen EXCEPT !.state = "suspendedYield"]
            /\ yielded' = Append(yielded, r.view)
            /\ lines' = r.rest
            /\ readsIssued' = readsIssued
            /\ lastPull' = "value"
       [] r.kind = "return" ->
            /\ gen' = [gen EXCEPT !.state = "completed", !.exit = "sentinel"]
            /\ lines' = <<>>
            /\ lastPull' = "done"
            /\ UNCHANGED <<yielded, readsIssued>>
       [] r.kind = "throw" ->
            /\ gen' = [gen EXCEPT !.state = "completed", !.exit = "error",
                                  !.error = r.error]
            /\ lines' = <<>>
            /\ lastPull' = "threw"
            /\ UNCHANGED <<yielded, readsIssued>>
       [] r.kind = "read" ->
            \* line 171: the while loop comes round to reader.read()
            /\ gen' = [gen EXCEPT !.state = "awaitingRead"]
            /\ lines' = <<>>
            /\ readsIssued' = readsIssued + 1
            /\ yielded' = yielded
            /\ lastPull' = "pending"

\* the consumer's first next(): lines 168-171, getReader() locks the stream
\* and the first reader.read() is issued
NextFirst ==
  /\ gen.state = "suspendedStart"
  /\ gen' = [gen EXCEPT !.state = "awaitingRead"]
  /\ readerLocked' = TRUE
  /\ readsIssued' = readsIssued + 1
  /\ lastPull' = "pending"
  /\ UNCHANGED others
  /\ UNCHANGED <<op, request, requests, response, frames, wholeFrames, result, returned,
                 lines, reads, yielded>>

\* the consumer's next() after a yield: the for loop resumes
NextResume ==
  /\ gen.state = "suspendedYield"
  /\ Advance(lines)
  /\ UNCHANGED others
  /\ UNCHANGED <<op, request, requests, response, frames, wholeFrames, result, returned,
                 reads, readerLocked>>

\* lines 171-176: the pending reader.read() settles with the next chunk
ReadChunk ==
  /\ gen.state = "awaitingRead"
  /\ reads # <<>>
  /\ reads' = Tail(reads)
  /\ \E segs \in {Split(decode(Head(reads)))} : Advance(segs)
  /\ UNCHANGED others
  /\ UNCHANGED <<op, request, requests, response, frames, wholeFrames, result, returned,
                 readerLocked>>

\* ReadDone treating the end of the stream before [DONE] as an error
ReadDoneThrows ==
  /\ gen.state = "awaitingRead"
  /\ reads = <<>>
  /\ gen' = [gen EXCEPT !.state = "completed", !.exit = "error",
                        !.error = Thrown("Error")]
  /\ lastPull' = "threw"
  /\ UNCHANGED others
  /\ UNCHANGED <<op, request, requests, response, frames, wholeFrames, result, returned,
                 lines, reads, readerLocked, readsIssued, yielded>>

\* lines 171-174: the pending reader.read() settles with done; break leaves
\* the loop and the generator ends
ReadDone ==
  /\ gen.state = "awaitingRead"
  /\ reads = <<>>
  /\ gen' = [gen EXCEPT !.state = "completed", !.exit = "eos"]
  /\ lastPull' = "done"
  /\ UNCHANGED others
  /\ UNCHANGED <<op, request, requests, response, frames, wholeFrames, result, returned,
                 lines, reads, readerLocked, readsIssued, yielded>>

\* the consumer abandons the sequence: return() on the suspended generator
\* ends it where it stands; the body has no finally block to run
Return ==
  /\ gen.state \in {"suspendedStart", "suspendedYield"}
  /\ gen' = [gen EXCEPT !.state = "completed", !.exit = "abandoned"]
  /\ lines' = <<>>
  /\ lastPull' = "done"
  /\ UNCHANGED others
  /\ UNCHANGED <<op, request, requests, response, frames, wholeFrames, result, returned,
                 reads, readerLocked, readsIssued, yielded>>

\* ------------------------------------------- a second streaming sequence
\* The generator of a second generateContentStream call on the same adapter.
\* stream, reader, decoder and lines are locals of the call and of its
\* generator (lines 162-176), so the second sequence has its own, held in peer.
PeerRequest == [contents |-> JsStr(TextA), generationConfig |-> NoConfig]

\* Advance, on the record of the second sequence
Advanced(p, ls) ==
  LET r == RunLines(ls)
  IN CASE r.kind = "yield" ->
            [p EXCEPT !.state = "suspendedYield", !.yielded = Append(@, r.view),
                      !.lines = r.rest]
       [] r.kind = "return" ->
            [p EXCEPT !.state = "completed", !.exit = "sentinel", !.lines = <<>>]
       [] r.kind = "throw" ->
            [p EXCEPT !.state = "completed", !.exit = "error", !.error = r.error,
                      !.lines = <<>>]
       [] r.kind = "read" ->
            [p EXCEPT !.state = "awaitingRead", !.lines = <<>>,
                      !.readsIssued = @ + 1]

\* lines 132-197 for the second call, on a 200 response with a body: its own
\* fetch, its own stream
PeerCall(chunks) ==
  /\ op = "generateContentStream"
  /\ peer.state = "none"
  /\ requests' = Append(requests, RequestBody(PeerRequest, TRUE))
  /\ peer' = [NoPeer EXCEPT !.state = "suspendedStart", !.chunks = chunks,
                            !.reads = chunks]
  /\ UNCHANGED <<op, request, response, frames, wholeFrames, result, returned, gen,
                 lines, reads, readerLocked, readsIssued, yielded, lastPull,
                 counted, embed, iters>>

PeerNextFirst ==
  /\ peer.state = "suspendedStart"
  /\ peer' = [peer EXCEPT !.state = "awaitingRead", !.readerLocked = TRUE,
                          !.readsIssued = @ + 1]
  /\ UNCHANGED <<op, request, requests, response, frames, wholeFrames, result,
                 returned, gen, lines, reads, readerLocked, readsIssued, yielded,
                 lastPull, counted, embed, iters>>

PeerNextResume ==
  /\ peer.state = "suspendedYield"
  /\ peer' = Advanced(peer, peer.lines)
  /\ UNCHANGED <<op, request, requests, response, frames, wholeFrames, result,
                 returned, gen, lines, reads, readerLocked, readsIssued, yielded,
                 lastPull, counted, embed, iters>>

\* PeerReadChunk on a stream shared by the two sequences: the read takes the
\* next chunk of the first call's body
PeerReadChunkShared ==
  /\ peer.state = "awaitingRead"
  /\ reads # <<>>
  /\ \E segs \in {Split(decode(Head(reads)))} : peer' = Advanced(peer, segs)
  /\ reads' = Tail(reads)
  /\ UNCHANGED <<op, request, requests, response, frames, wholeFrames, result,
                 returned, gen, lines, readerLocked, readsIssued, yielded,
                 lastPull, counted, embed, iters>>

PeerReadChunk ==
  /\ peer.state = "awaitingRead"
  /\ peer.reads # <<>>
  /\ \E segs \in {Split(decode(Head(peer.reads)))} :
       peer' = Advanced([peer EXCEPT !.reads = Tail(@)], segs)
  /\ UNCHANGED <<op, request, requests, response, frames, wholeFrames, result,
                 returned, gen, lines, reads, readerLocked, readsIssued, yielded,
                 lastPull, counted, embed, iters>>

PeerReadDone ==
  /\ peer.state = "awaitingRead"
  /\ peer.reads = <<>>
  /\ peer' = [peer EXCEPT !.state = "completed", !.exit = "eos"]
  /\ UNCHANGED <<op, request, requests, response, frames, wholeFrames, result,
                 returned, gen, lines, reads, readerLocked, readsIssued, yielded,
                 lastPull, counted, embed, iters>>

\* ------------------------------------------------------ the view's iterator
MaxIters == 3
MaxNexts == 3

\* lines 67-68: the iterator object closes over the view and a counter of its own
NewIterator(view) == [self |-> view, i |-> 0, out |-> <<>>]

\* next() written with ++i: the counter is compared after the increment
IteratorNextPreIncrement(it) ==
  [it EXCEPT !.i = @ + 1,
             !.out = Append(@, [value |-> it.self, done |-> (it.i + 1 # 0)])]

\* lines 70-75: i++ === 0 compares the counter as it was and increments it;
\* out records what the calls returned
IteratorNext(it) ==
  [it EXCEPT !.i = @ + 1,
             !.out = Append(@, [value |-> it.self, done |-> (it.i # 0)])]

\* view[Symbol.iterator]() on the view a generateContent call returned
SymbolIterator ==
  /\ returned # <<>>
  /\ Len(iters) < MaxIters
  /\ iters' = Append(iters, NewIterator(returned[1]))
  /\ UNCHANGED <<op, request, requests, response, frames, wholeFrames, result, returned,
                 gen, lines, reads, readerLocked, readsIssued, yielded, lastPull,
                 counted, embed, peer>>

\* next() on one of the iterators obtained so far
CallIteratorNext ==
  \E k \in 1..Len(iters) :
    /\ Len(iters[k].out) < MaxNexts
    /\ iters' = [iters EXCEPT ![k] = IteratorNext(iters[k])]
    /\ UNCHANGED <<op, request, requests, response, frames, wholeFrames, result,
                   returned, gen, lines, reads, readerLocked, readsIssued, yielded,
                   lastPull, counted, embed, peer>>

\* ------------------------------------------------------------- countTokens
CharsPerToken == 4

\* Math.floor in the place of Math.ceil
MathFloorQuotient(n, d) == n \div d

\* Math.ceil(n / d) for n >= 0 and d > 0
MathCeilQuotient(n, d) == IF n % d = 0 THEN n \div d ELSE (n \div d) + 1

\* lines 203-208: the part texts of every entry joined, and the results joined
CountedText(contents) ==
  Join([i \in 1..Len(contents) |->
          LET parts == IF contents[i].parts.t = "arr"
                       THEN contents[i].parts.v ELSE <<>>
          IN JsStr(Join([j \in 1..Len(parts) |-> parts[j].text]))])

\* lines 210-212
TotalTokens(contents) ==
  MathCeilQuotient(Len(CountedText(contentsToParts(contents))), CharsPerToken)

\* lines 200-213: no fetch; resolves with the estimate
countTokens(req) ==
  /\ op = "none"
  /\ op' = "countTokens"
  /\ request' = req
  /\ result' = Resolved
  /\ counted' = Append(counted, [totalTokens |-> TotalTokens(req.contents)])
  /\ UNCHANGED <<requests, response, frames, wholeFrames, returned, gen, lines, reads,
                 readerLocked, readsIssued, yielded, lastPull, embed, peer, iters>>

\* ------------------------------------------------------------ embedContent
MaxEmbedCalls == 2

EmbedInputs == {JsUndefined, JsStr(TextA)}

UnsupportedText ==
  <<"e", "m", "b", "e", "d", "C", "o", "n", "t", "e", "n", "t", " ",
    "n", "o", "t", " ", "s", "u", "p", "p", "o", "r", "t", "e", "d">>

\* embedContent declared async: the error would reject the returned promise
embedContentAsync(input) ==
  /\ embed.calls < MaxEmbedCalls
  /\ embed' = [calls |-> embed.calls + 1, input |-> input, outcome |-> "rejected",
               error |-> [Thrown("Error") EXCEPT !.text = UnsupportedText]]
  /\ UNCHANGED <<op, request, requests, response, frames, wholeFrames, result, returned,
                 gen, lines, reads, readerLocked, readsIssued, yielded, lastPull,
                 counted, peer, iters>>

\* lines 215-219: not an async method, so the throw leaves the call itself;
\* nothing of the adapter is read or written
embedContent(input) ==
  /\ embed.calls < MaxEmbedCalls
  /\ embed' = [calls |-> embed.calls + 1, input |-> input, outcome |-> "threw",
               error |-> [Thrown("Error") EXCEPT !.text = UnsupportedText]]
  /\ UNCHANGED <<op, request, requests, response, frames, wholeFrames, result, returned,
                 gen, lines, reads, readerLocked, readsIssued, yielded, lastPull,
                 counted, peer, iters>>

\* NextFinished answering with the last value again
NextFinishedRepeats ==
  /\ gen.state = "completed"
  /\ lastPull' = "value"
  /\ UNCHANGED others
  /\ UNCHANGED <<op, request, requests, response, frames, wholeFrames, result, returned,
                 gen, lines, reads, readerLocked, readsIssued, yielded>>

\* next() on the generator after it has returned or thrown: the body does not
\* run again, the call resolves with done
NextFinished ==
  /\ gen.state = "completed"
  /\ lastPull' = "done"
  /\ UNCHANGED others
  /\ UNCHANGED <<op, request, requests, response, frames, wholeFrames, result, returned,
                 gen, lines, reads, readerLocked, readsIssued, yielded>>

\* ------------------------------------------------------------ specification
CallGenerateContent ==
  /\ op = "none"
  /\ \E req \in Requests :
    \/ \E resp \in ErrorResponses : generateContent(req, resp, <<>>, TRUE)
    \/ generateContent(req, OkResponse(NullBody), <<>>, TRUE)
    \/ \E b \in BodyCatalog :
         generateContent(req, OkResponse(StreamBody(<<Encode(FrameJson(b))>>)),
                         <<b>>, TRUE)

CallGenerateContentStream ==
  /\ op = "none"
  /\ \E req \in Requests :
    \/ \E resp \in ErrorResponses : generateContentStream(req, resp, <<>>, TRUE)
    \/ generateContentStream(req, OkResponse(NullBody), <<>>, TRUE)
    \/ \E fs \in SeqsUpTo(FrameCatalog, MaxFrames) :
         \E cuts \in CutSets(fs) :
           generateContentStream(
             req, OkResponse(StreamBody(Chunks(Encode(StreamText(fs)), cuts))),
             fs, cuts \subseteq Boundaries(fs))

Next ==
  \/ CallGenerateContent
  \/ CallGenerateContentStream
  \/ NextFirst
  \/ NextResume
  \/ ReadChunk
  \/ ReadDone
  \/ Return
  \/ NextFinished

Spec == Init /\ [][Next]_vars

\* the request conversion over every contents input: both calls, each on a
\* response that lets it succeed
NextMsg ==
  /\ op = "none"
  /\ \E req \in RequestsAll :
       \/ generateContent(
            req, OkResponse(StreamBody(<<Encode(FrameJson(EventFrame(<<"H">>)))>>)),
            <<EventFrame(<<"H">>)>>, TRUE)
       \/ generateContentStream(
            req, OkResponse(StreamBody(<<Encode(FrameText(DoneFrame))>>)),
            <<DoneFrame>>, TRUE)

SpecMsg == Init /\ [][NextMsg]_vars

\* the inputs of countTokens: the entries of the requests and entries of four
\* characters, so that every total from 0 to 8 occurs
TokenEntries ==
  Entries \cup [role : Roles,
                parts : {JsArr(<<[text |-> JsStr(TextBC)], [text |-> JsStr(TextBC)]>>)}]

TokenRequests ==
  [contents : {JsStr(TextA), JsStr(<<>>)}
              \cup {JsArr(es) : es \in SeqsUpTo(TokenEntries, MaxEntries)},
   generationConfig : {NoConfig}]

\* countTokens over every contents input
NextTokens == \E req \in TokenRequests : countTokens(req)

SpecTokens == Init /\ [][NextTokens]_vars

\* embedContent called at any point of the other calls; the streams are delivered
\* one frame to a read
CallStreamWhole ==
  /\ op = "none"
  /\ \E req \in Requests :
    \/ \E resp \in ErrorResponses : generateContentStream(req, resp, <<>>, TRUE)
    \/ \E fs \in SeqsUpTo(FrameCatalog, MaxFrames) :
         generateContentStream(
           req, OkResponse(StreamBody(Chunks(Encode(StreamText(fs)), Boundaries(fs)))),
           fs, TRUE)

CallEmbedContent == \E input \in EmbedInputs : embedContent(input)

NextEmbed ==
  \/ CallGenerateContent
  \/ CallStreamWhole
  \/ NextFirst
  \/ NextResume
  \/ ReadChunk
  \/ ReadDone
  \/ Return
  \/ NextFinished
  \/ CallEmbedContent

SpecEmbed == Init /\ [][NextEmbed]_vars

\* streams with frames that carry no data segment among the others, delivered
\* in whole frames grouped into reads in every way
SkipCatalog ==
  {EventFrame(<<"h">>), EventFrame(<<"l">>), MalformedFrame(<<"h">>), DoneFrame,
   CommentFrame, EmptyFrame, NoSpaceFrame}

CallStreamSkip ==
  /\ op = "none"
  /\ \E req \in Requests :
       \E fs \in SeqsUpTo(SkipCatalog, MaxFrames) :
         \E A \in SUBSET Boundaries(fs) :
           generateContentStream(
             req, OkResponse(StreamBody(Chunks(Encode(StreamText(fs)), A))), fs, TRUE)

NextSkip ==
  \/ CallStreamSkip
  \/ NextFirst
  \/ NextResume
  \/ ReadChunk
  \/ ReadDone
  \/ Return
  \/ NextFinished

SpecSkip == Init /\ [][NextSkip]_vars

\* a consumer that keeps pulling and a transport that settles every read, with
\* a chunk while there is one and with the end of the stream after the last
NextLive ==
  \/ CallStreamWhole
  \/ NextFirst
  \/ NextResume
  \/ ReadChunk
  \/ ReadDone
  \/ Return
  \/ NextFinished

SpecLive ==
  /\ Init
  /\ [][NextLive]_vars
  /\ WF_vars(NextFirst)
  /\ WF_vars(NextResume)
  /\ WF_vars(ReadChunk)
  /\ WF_vars(ReadDone)

\* two streaming sequences of one adapter, pulled in any interleaving: the
\* first over every stream, one frame to a read, the second over three streams
PeerStreams ==
  {<<EventFrame(<<"h">>), DoneFrame, EventFrame(<<"l">>)>>,
   <<EventFrame(<<"l">>), EventFrame(<<"h">>), MalformedFrame(<<"h">>)>>,
   <<EventFrame(<<"f", "s">>), EventFrame(<<"h">>)>>}

CallPeer ==
  \E fs \in PeerStreams : PeerCall(Chunks(Encode(StreamText(fs)), Boundaries(fs)))

NextTwo ==
  \/ CallStreamWhole
  \/ NextFirst
  \/ NextResume
  \/ ReadChunk
  \/ ReadDone
  \/ Return
  \/ NextFinished
  \/ CallPeer
  \/ PeerNextFirst
  \/ PeerNextResume
  \/ PeerReadChunk
  \/ PeerReadDone

SpecTwo == Init /\ [][NextTwo]_vars

\* iterators over the view of a generateContent call, each stepped on its own
NextIter ==
  \/ CallGenerateContent
  \/ SymbolIterator
  \/ CallIteratorNext

SpecIter == Init /\ [][NextIter]_vars

\* ------------------------------------------------- vocabulary of the claims
IsStream == op = "generateContentStream"

\* every read of the body consists of whole frames
AlignedDelivery == wholeFrames

\* the chunks of the body are the frames, each whole, grouped into reads
ChunksAreWholeFrames ==
  \E A \in SUBSET Boundaries(frames) :
    response.body.chunks = Chunks(Encode(StreamText(frames)), A)

\* the generator ran to an end of its own: not ended by the consumer's return()
RanToEnd == gen.state = "completed" /\ gen.exit # "abandoned"

\* the view carries the choices the server put into the frame
Corresponds(view, fr) ==
  /\ Len(view.data.choices) = Len(fr.data.choices)
  /\ \A i \in 1..Len(fr.data.choices) :
       /\ view.data.choices[i].index = fr.data.choices[i].index
       /\ view.data.choices[i].delta = fr.data.choices[i].delta
       /\ view.data.choices[i].finish_reason = fr.data.choices[i].finish_reason

\* the first k frames are events and the views so far are theirs, in order
YieldedAreFirst(k) ==
  /\ Len(yielded) = k
  /\ \A i \in 1..k : frames[i].kind = "event" /\ Corresponds(yielded[i], frames[i])

\* -------------------------------------------------------------------- C1
\* the frames are N events followed by the [DONE] frame
WellFormedStream ==
  /\ frames # <<>>
  /\ frames[Len(frames)].kind = "done"
  /\ \A i \in 1..(Len(frames) - 1) : frames[i].kind = "event"

\* C1: for a stream of N events followed by [DONE], each read delivering
\* whole frames, the views yielded are at every moment the views of the first
\* events in stream order, the k-th view's text being the first choice's delta
\* content of the k-th event; there are never more than N, no error is raised,
\* and the generator ends on the sentinel after exactly N views.
C1_YieldsEventsInOrderThenEnds ==
  (IsStream /\ result.state = "returned" /\ WellFormedStream /\ AlignedDelivery)
  => /\ Len(yielded) <= Len(frames) - 1
     /\ \A k \in 1..Len(yielded) :
          /\ Corresponds(yielded[k], frames[k])
          /\ text(yielded[k]) = Ok(frames[k].data.choices[1].delta.content)
     /\ gen.error = NoError
     /\ RanToEnd => Len(yielded) = Len(frames) - 1 /\ gen.exit = "sentinel"

\* two events with different texts and [DONE], one frame per read, consumed
\* to the end
C1_Witness ==
  /\ IsStream /\ WellFormedStream /\ AlignedDelivery /\ RanToEnd
  /\ Len(frames) = 3
  /\ Len(response.body.chunks) = 3
  /\ Len(yielded) = 2
  /\ text(yielded[1]) = Ok(JsStr(<<"H", "e">>))
  /\ text(yielded[2]) = Ok(JsStr(<<"l", "l", "o">>))

\* -------------------------------------------------------------------- C2
\* frame m is the first frame that is not an event, and it is malformed
FirstMalformed(m) ==
  /\ frames[m].kind = "malformed"
  /\ \A i \in 1..(m - 1) : frames[i].kind = "event"

\* C2: when the first frame that is not an event is a malformed one (reads
\* delivering whole frames), the generator never yields more than the events
\* before it, each in order; it ends, unless the consumer ended it, by raising
\* the SyntaxError of JSON.parse after yielding all of them; and a generator
\* that raised has completed, so nothing that follows is yielded.
C2_MalformedEventAborts ==
  \A m \in 1..Len(frames) :
    (IsStream /\ result.state = "returned" /\ AlignedDelivery /\ FirstMalformed(m))
    => /\ Len(yielded) <= m - 1
       /\ \A k \in 1..Len(yielded) : Corresponds(yielded[k], frames[k])
       /\ RanToEnd => /\ gen.exit = "error"
                      /\ gen.error = Thrown("SyntaxError")
                      /\ YieldedAreFirst(m - 1)
       /\ gen.exit = "error" => gen.state = "completed" /\ lines = <<>>

\* a valid event, a malformed one and a valid one in a single read: the first
\* was yielded, then the error
C2_Witness ==
  /\ IsStream /\ AlignedDelivery
  /\ Len(frames) = 3 /\ FirstMalformed(2) /\ frames[3].kind = "event"
  /\ Len(response.body.chunks) = 1
  /\ gen.exit = "error"
  /\ Len(yielded) = 1

\* -------------------------------------------------------------------- C3
\* C3: once the generator has exited after acquiring the reader, by [DONE],
\* end of stream, error or the consumer's return(), the reader is released.
C3_ReaderReleasedOnExit ==
  (gen.state = "completed" /\ readsIssued > 0) => ~readerLocked

\* -------------------------------------------------------------------- C4
\* number of segments of the chunks that start with the data prefix
RECURSIVE DataSegments(_)
DataSegments(chunks) ==
  IF chunks = <<>> THEN 0
  ELSE Len(SelectSeq(Split(decode(Head(chunks))),
                     LAMBDA seg : StartsWith(seg, DataPrefix)))
       + DataSegments(Tail(chunks))

AllEvents == \A i \in 1..Len(frames) : frames[i].kind = "event"

\* C4: a generator that ended because the transport signalled the end of the
\* stream has completed without error, with every chunk consumed and one view
\* yielded per data segment received; and a stream of events only, without
\* [DONE], delivered in whole frames and consumed to the end, ends this way
\* with the view of every event.
C4_EndOfStreamEndsNormally ==
  IsStream
  => /\ gen.exit = "eos"
        => /\ gen.state = "completed"
           /\ gen.error = NoError
           /\ reads = <<>>
           /\ Len(yielded) = DataSegments(response.body.chunks)
     /\ (result.state = "returned" /\ AlignedDelivery /\ AllEvents /\ RanToEnd)
        => gen.exit = "eos" /\ YieldedAreFirst(Len(frames))

\* two events and no [DONE]: both views yielded, then a normal end
C4_Witness ==
  /\ IsStream /\ AllEvents /\ AlignedDelivery
  /\ Len(frames) = 2
  /\ gen.exit = "eos"
  /\ gen.error = NoError
  /\ Len(yielded) = 2

\* -------------------------------------------------------------------- C5
SuccessStatus == response.status >= 200 /\ response.status <= 299

FetchErrorText == "Failed to fetch from local LLM:"

\* C5: after either call on a response with a non-success status the call has
\* rejected with the fetch error carrying the status code, the status text and
\* the text of the whole body; no view was returned, no generator created and
\* nothing yielded; no reader was acquired and no read issued on the body
\* stream; and exactly one HTTP request was issued.
C5_NonSuccessStatusFails ==
  (op # "none" /\ ~SuccessStatus)
  => /\ result.state = "threw"
     /\ result.error.name = "Error"
     /\ result.error.text = FetchErrorText
     /\ result.error.status = response.status
     /\ result.error.statusText = response.statusText
     /\ Encode(result.error.body) = Concat(response.body.chunks)
     /\ returned = <<>> /\ gen = NoGen /\ yielded = <<>>
     /\ ~readerLocked /\ readsIssued = 0
     /\ Len(requests) = 1

\* generateContent on HTTP 500 with body "boom"
C5_Witness ==
  /\ op = "generateContent"
  /\ response.status = 500
  /\ result.state = "threw"
  /\ result.error.status = 500
  /\ result.error.body = <<"b", "o", "o", "m">>

\* -------------------------------------------------------------------- C6
\* C6: generateContentStream on a success status without a body rejects with
\* the missing-body error, and no generator exists and nothing is read or
\* yielded; the missing-body error occurs only on the streaming call with a
\* success status and no body; on a non-success status the streaming call
\* rejects with the fetch error, body or not.
C6_MissingBodyOnSuccessOnly ==
  /\ (IsStream /\ SuccessStatus /\ response.body.t = "null")
     => /\ result.state = "threw"
        /\ result.error.name = "Error"
        /\ result.error.text = "No response body"
        /\ gen = NoGen /\ yielded = <<>> /\ readsIssued = 0 /\ ~readerLocked
  /\ result.error.text = "No response body"
     => IsStream /\ SuccessStatus /\ response.body.t = "null"
  /\ (IsStream /\ ~SuccessStatus) => result.error.text = FetchErrorText

\* the streaming call on 200 without a body
C6_Witness ==
  /\ IsStream
  /\ response.status = 200
  /\ response.body.t = "null"
  /\ result.state = "threw"
  /\ result.error.text = "No response body"

\* -------------------------------------------------------------------- C7
\* C7: generateContent on a success status with a body that is the JSON of a
\* completion payload resolves with exactly one view; reading its candidates
\* succeeds and gives one candidate per choice of the body, candidate i with
\* the finish_reason of choice i; and its text is the message content of the
\* first choice, when the body has a choice.
C7_ViewOverParsedBody ==
  (op = "generateContent" /\ SuccessStatus /\ Len(frames) = 1
   /\ frames[1].kind = "event")
  => /\ result.state = "returned"
     /\ Len(returned) = 1
     /\ LET choices == frames[1].data.choices
            c == candidates(returned[1])
        IN /\ c.ok
           /\ Len(c.value) = Len(choices)
           /\ \A i \in 1..Len(choices) :
                c.value[i].finishReason = choices[i].finish_reason
           /\ choices # <<>>
              => text(returned[1]) = Ok(choices[1].message.content)

\* a body of two choices: text "hi", two candidates, "stop" and "length"
C7_Witness ==
  /\ op = "generateContent"
  /\ Len(returned) = 1
  /\ text(returned[1]) = Ok(JsStr(<<"h", "i">>))
  /\ Len(candidates(returned[1]).value) = 2
  /\ candidates(returned[1]).value[1].finishReason = JsStr(StopText)
  /\ candidates(returned[1]).value[2].finishReason = JsStr(LengthText)

\* -------------------------------------------------------------------- C8
\* the part texts of an entry, in order, a part without text giving nothing
PartTexts(entry) ==
  LET parts == IF entry.parts.t = "arr" THEN entry.parts.v ELSE <<>>
  IN Concat([j \in 1..Len(parts) |->
               IF parts[j].text.t = "str" THEN parts[j].text.v ELSE <<>>])

\* C8: the messages of the request issued by a call: for a bare string, one
\* user message with the string as content; for a list of entries, one message
\* per entry in the same order, with role assistant for model and user for
\* any other role, and content the part texts of the entry in order.
C8_OneMessagePerEntry ==
  op # "none"
  => /\ Len(requests) = 1
     /\ LET msgs == requests[1].messages
            c == request.contents
        IN IF c.t = "str"
           THEN msgs = <<[role |-> "user", content |-> c.v]>>
           ELSE /\ Len(msgs) = Len(c.v)
                /\ \A i \in 1..Len(c.v) :
                     /\ msgs[i].role =
                          IF c.v[i].role = "model" THEN "assistant" ELSE "user"
                     /\ msgs[i].content = PartTexts(c.v[i])

\* two consecutive model entries, the first with a part without text between
\* two parts with text: two assistant messages, "abc" and "bca"
C8_Witness ==
  /\ op # "none"
  /\ request.contents.t = "arr"
  /\ Len(request.contents.v) = 2
  /\ request.contents.v[1].role = "model"
  /\ request.contents.v[2].role = "model"
  /\ request.contents.v[1].parts.t = "arr"
  /\ Len(request.contents.v[1].parts.v) = 3
  /\ Len(requests[1].messages) = 2
  /\ requests[1].messages[1] = [role |-> "assistant", content |-> <<"a", "b", "c">>]
  /\ requests[1].messages[2] = [role |-> "assistant", content |-> <<"b", "c", "a">>]

\* -------------------------------------------------------------------- C9
\* reading the candidates of the view succeeds and gives one candidate per
\* choice, in order, each of the shape the view promises
CandidatesFor(view, choices, field) ==
  LET c == candidates(view)
  IN /\ c.ok
     /\ Len(c.value) = Len(choices)
     /\ \A i \in 1..Len(choices) :
          /\ c.value[i].index = choices[i].index
          /\ c.value[i].content.role = "model"
          /\ Len(c.value[i].content.parts) = 1
          /\ c.value[i].content.parts[1].text =
               IF field = "delta" THEN choices[i].delta.content
               ELSE choices[i].message.content
          /\ c.value[i].finishReason = choices[i].finish_reason
          /\ c.value[i].citationMetadata.citationSources = <<>>

\* C9: every view, returned by generateContent or yielded by the generator,
\* has one candidate per choice of its payload, in order, with role model, one
\* text part, the choice's index, its finish_reason as finishReason and no
\* citation sources; the payload being the body the server sent for a returned
\* view, and the k-th event the server sent for the k-th view yielded from
\* reads of whole frames.
C9_OneCandidatePerChoice ==
  /\ \A k \in 1..Len(returned) :
       /\ CandidatesFor(returned[k], returned[k].data.choices, "message")
       /\ CandidatesFor(returned[k], frames[k].data.choices, "message")
  /\ \A k \in 1..Len(yielded) :
       /\ CandidatesFor(yielded[k], yielded[k].data.choices, "message")
       /\ AlignedDelivery
          => CandidatesFor(yielded[k], frames[k].data.choices, "delta")

\* a view yielded for a streaming event of two choices
C9_Witness ==
  /\ IsStream
  /\ \E k \in 1..Len(yielded) :
       /\ Len(yielded[k].data.choices) = 2
       /\ Len(candidates(yielded[k]).value) = 2
       /\ candidates(yielded[k]).value[2].index = 1
       /\ candidates(yielded[k]).value[2].finishReason = JsStr(LengthText)

\* ------------------------------------------------------------------- C10
\* C10: in every view, reading the candidates succeeds, and the text part of a
\* candidate whose choice has a message without content is the empty string.
C10_AbsentContentIsEmptyText ==
  \A v \in {returned[k] : k \in 1..Len(returned)}
           \cup {yielded[k] : k \in 1..Len(yielded)} :
    /\ candidates(v).ok
    /\ \A i \in 1..Len(v.data.choices) :
         (v.data.choices[i].message.t = "obj"
          /\ v.data.choices[i].message.content.t = "undefined")
         => candidates(v).value[i].content.parts[1].text = JsStr(<<>>)

\* ------------------------------------------------------------------- C11
\* the number of characters of the texts of a contents input
RECURSIVE SumLen(_)
SumLen(texts) ==
  IF texts = <<>> THEN 0
  ELSE (IF Head(texts).t = "str" THEN Len(Head(texts).v) ELSE 0)
       + SumLen(Tail(texts))

RECURSIVE EntriesLength(_)
EntriesLength(es) ==
  IF es = <<>> THEN 0
  ELSE (IF Head(es).parts.t = "arr"
        THEN SumLen([j \in 1..Len(Head(es).parts.v) |-> Head(es).parts.v[j].text])
        ELSE 0)
       + EntriesLength(Tail(es))

TotalLength(contents) ==
  IF contents.t = "str" THEN Len(contents.v) ELSE EntriesLength(contents.v)

\* the contents of at most one entry
SmallContents == {JsArr(es) : es \in SeqsUpTo(TokenEntries, 1)}

\* C11: countTokens resolves with the least t with 4 * t >= L, L being the
\* number of characters of all part texts of all entries: 0 for L = 0, 1 for
\* L = 4 and 2 for L = 5; an input with the same L gets the same count and one
\* with a smaller L no larger count; and the call issues no HTTP request.
C11_CeilOfQuarterLength ==
  op = "countTokens"
  => /\ result.state = "returned"
     /\ Len(counted) = 1
     /\ requests = <<>>
     /\ LET t == counted[1].totalTokens
            L == TotalLength(request.contents)
        IN /\ 4 * t >= L
           /\ 4 * (t - 1) < L
           /\ L = 0 => t = 0
           /\ L = 4 => t = 1
           /\ L = 5 => t = 2
           /\ \A c \in SmallContents :
                /\ TotalLength(c) = L => TotalTokens(c) = t
                /\ TotalLength(c) <= L => TotalTokens(c) <= t

\* two entries with five characters in all: two tokens
C11_Witness ==
  /\ op = "countTokens"
  /\ request.contents.t = "arr"
  /\ Len(request.contents.v) = 2
  /\ TotalLength(request.contents) = 5
  /\ counted = <<[totalTokens |-> 2]>>

\* ------------------------------------------------------------------- C12
\* C12: every call of embedContent, whatever its input and whatever the other
\* calls of the adapter have reached, throws the error "embedContent not
\* supported" out of the call itself, and the step of the call issues no HTTP
\* request and leaves every other call as it stands.
C12_EmbedAlwaysThrowsSynchronously ==
  /\ [](embed.calls > 0
        => /\ embed.outcome = "threw"
           /\ embed.error.name = "Error"
           /\ embed.error.text = UnsupportedText)
  /\ [][embed'.calls # embed.calls
        => /\ embed'.calls = embed.calls + 1
           /\ embed'.outcome = "threw"
           /\ requests' = requests
           /\ <<op, result, gen, lines, reads, readsIssued, yielded>>'
              = <<op, result, gen, lines, reads, readsIssued, yielded>>]_vars

\* a second call, made while a streaming sequence is suspended at a yield
C12_Witness ==
  /\ embed.calls = 2
  /\ embed.outcome = "threw"
  /\ embed.input = JsStr(TextA)
  /\ gen.state = "suspendedYield"
  /\ Len(requests) = 1

\* ------------------------------------------------------------------- C13
\* normal end or error
Outcome(exit) == IF exit = "error" THEN "error" ELSE "normal"

\* the whole byte stream delivered by a single read
OneRead(fs) == Chunks(Encode(StreamText(fs)), {})

\* C13: the views yielded and the final outcome depend only on the bytes of
\* the stream: a generator consumed to the end has yielded the views, and ended
\* with the outcome, that the same bytes give when a single read delivers them.
C13_ResultIndependentOfPartition ==
  (IsStream /\ result.state = "returned" /\ RanToEnd)
  => LET whole == Consume(OneRead(frames))
     IN /\ yielded = whole.views
        /\ Outcome(gen.exit) = Outcome(whole.exit)
        /\ gen.error = whole.error

\* ------------------------------------------------------------------- C14
\* C14: when a stream of well-formed events is cut anywhere into reads and
\* consumed to the end, either every event was yielded intact, in order, or
\* the generator aborted with the SyntaxError of JSON.parse after yielding the
\* events before the failure: no event is dropped by a generator that goes on
\* to a normal end.
C14_SplitEventYieldedOrParseError ==
  (IsStream /\ result.state = "returned" /\ AllEvents /\ RanToEnd)
  => \/ gen.exit = "eos" /\ YieldedAreFirst(Len(frames))
     \/ /\ gen.exit = "error"
        /\ gen.error = Thrown("SyntaxError")
        /\ Len(yielded) < Len(frames)
        /\ YieldedAreFirst(Len(yielded))

\* ------------------------------------------------------------------- C15
\* frame d is the [DONE] frame and every frame before it is an event
FirstDone(d) ==
  /\ frames[d].kind = "done"
  /\ \A i \in 1..(d - 1) : frames[i].kind = "event"

\* C15: a generator that has observed [DONE] has completed without error and
\* holds no segment; when [DONE] is the first frame that is not an event (reads
\* delivering whole frames), a generator consumed to the end ended on it with
\* the views of the events before it only, whatever follows it, malformed frames
\* included; and from then on no step yields, issues or completes a read, and
\* every pull reports the sequence finished.
C15_NothingAfterDone ==
  /\ []((IsStream /\ gen.exit = "sentinel")
        => gen.state = "completed" /\ gen.error = NoError /\ lines = <<>>)
  /\ [](\A d \in 1..Len(frames) :
          (IsStream /\ result.state = "returned" /\ AlignedDelivery /\ FirstDone(d)
           /\ RanToEnd)
          => gen.exit = "sentinel" /\ YieldedAreFirst(d - 1))
  /\ [][gen.exit = "sentinel"
        => /\ gen' = gen
           /\ yielded' = yielded
           /\ lines' = lines
           /\ reads' = reads
           /\ readsIssued' = readsIssued
           /\ lastPull' = "done"]_vars

\* an event, [DONE] and a malformed frame in a single read: one view, a normal
\* end, and a pull that reported done
C15_Witness ==
  /\ IsStream /\ AlignedDelivery
  /\ Len(frames) = 3
  /\ FirstDone(2)
  /\ frames[3].kind = "malformed"
  /\ Len(response.body.chunks) = 1
  /\ gen.exit = "sentinel"
  /\ gen.error = NoError
  /\ Len(yielded) = 1
  /\ lastPull = "done"

\* ------------------------------------------------------------------- C16
\* reads settled so far: the chunks delivered and the end-of-stream signal
ReadsSettled ==
  (Len(response.body.chunks) - Len(reads)) + (IF gen.exit = "eos" THEN 1 ELSE 0)

ReadsOutstanding == readsIssued - ReadsSettled

IsSuffix(a, b) ==
  Len(a) <= Len(b) /\ a = SubSeq(b, Len(b) - Len(a) + 1, Len(b))

\* the segments of the read settled last
LastReadSegments ==
  LET n == Len(response.body.chunks) - Len(reads)
  IN IF n = 0 THEN <<>> ELSE Split(decode(response.body.chunks[n]))

\* C16: the reader is acquired and a read issued only once the consumer has
\* pulled; a read is outstanding exactly while a pull waits on it, so never more
\* than one, and then no segment of an earlier read is held; the segments held
\* are the remaining ones of the read settled last; and a step issues at most
\* one read, leaving a pull pending on it.
C16_ConsumerPaced ==
  /\ []((IsStream /\ result.state = "returned")
        => /\ (readerLocked \/ readsIssued > 0) => lastPull # "none"
           /\ ReadsOutstanding \in {0, 1}
           /\ ReadsOutstanding = 1 <=> gen.state = "awaitingRead"
           /\ gen.state = "awaitingRead" <=> lastPull = "pending"
           /\ gen.state = "awaitingRead" => lines = <<>>
           /\ gen.state = "suspendedYield" => lastPull = "value"
           /\ IsSuffix(lines, LastReadSegments))
  /\ [][readsIssued' # readsIssued
        => /\ readsIssued' = readsIssued + 1
           /\ lines' = <<>>
           /\ lastPull' = "pending"
           /\ gen'.state = "awaitingRead"]_vars

\* two events of one read followed by an unread chunk: after the first view
\* the second event waits, one read was issued and none is outstanding
C16_Witness ==
  /\ IsStream
  /\ gen.state = "suspendedYield"
  /\ Len(yielded) = 1
  /\ Len(lines) >= 2
  /\ StartsWith(lines[1], DataPrefix)
  /\ reads # <<>>
  /\ readsIssued = 1
  /\ ReadsOutstanding = 0

\* ------------------------------------------------------------------- C17
HasDataPrefix(seg) == StartsWith(seg, DataPrefix)

\* the segments of the chunks, in order, without those lacking the prefix
RECURSIVE KeptSegments(_)
KeptSegments(chunks) ==
  IF chunks = <<>> THEN <<>>
  ELSE SelectSeq(Split(decode(Head(chunks))), HasDataPrefix)
       \o KeptSegments(Tail(chunks))

IsDataFrame(fr) == fr.kind \in {"event", "malformed", "done"}

\* the frames the server wrote, without those that carry no data segment
DataFrames == SelectSeq(frames, IsDataFrame)

\* the first k data frames are events and the views are theirs, in order
YieldedAreFirstData(k) ==
  /\ Len(yielded) = k
  /\ \A i \in 1..k :
       DataFrames[i].kind = "event" /\ Corresponds(yielded[i], DataFrames[i])

\* C17: segments lacking the prefix `data: ` (comments, empty segments, a data
\* field without the space) yield nothing and raise nothing: the views never
\* outnumber the data segments of the stream, and a generator consumed to the
\* end has yielded the views, and ended the way, that the data segments alone
\* give: the views of the events up to the first [DONE] or malformed frame, in
\* order, the other frames notwithstanding.
C17_SegmentsWithoutPrefixSkipped ==
  (IsStream /\ result.state = "returned")
  => /\ Len(yielded) <= Len(KeptSegments(response.body.chunks))
     /\ YieldedAreFirstData(Len(yielded))
     /\ RanToEnd
        => LET alone == ConsumeLines(KeptSegments(response.body.chunks), <<>>, <<>>)
           IN /\ yielded = alone.views
              /\ gen.exit = alone.exit
              /\ gen.error = alone.error
              /\ \/ gen.exit = "eos" /\ Len(yielded) = Len(DataFrames)
                 \/ /\ Len(yielded) < Len(DataFrames)
                    /\ gen.exit = "sentinel"
                    /\ DataFrames[Len(yielded) + 1].kind = "done"
                 \/ /\ Len(yielded) < Len(DataFrames)
                    /\ gen.exit = "error"
                    /\ gen.error = Thrown("SyntaxError")
                    /\ DataFrames[Len(yielded) + 1].kind = "malformed"

\* a comment, an event and a data field without the space in one read, consumed
\* to the end: the one view of the event, and a normal end
C17_Witness ==
  /\ IsStream
  /\ Len(frames) = 3
  /\ frames[1].kind = "comment"
  /\ frames[2].kind = "event"
  /\ frames[3].kind = "nospace"
  /\ Len(response.body.chunks) = 1
  /\ gen.exit = "eos"
  /\ gen.error = NoError
  /\ Len(yielded) = 1
  /\ Corresponds(yielded[1], frames[2])

\* ------------------------------------------------------------------- C18
\* C18: when the consumer keeps pulling and the transport settles every read,
\* signalling the end of the stream after the last chunk, the generator of a
\* returned sequence eventually completes; it never issues more reads than the
\* chunks and the end signal, nor yields more views than frames; and once it
\* has completed, normally or by an error, it stays as it is: every later pull
\* reports done, with no read issued and no view yielded.
C18_FiniteAndNotRestartable ==
  /\ ((IsStream /\ result.state = "returned") ~> gen.state = "completed")
  /\ []((IsStream /\ result.state = "returned")
        => /\ readsIssued <= Len(response.body.chunks) + 1
           /\ Len(yielded) <= Len(frames))
  /\ [][gen.state = "completed"
        => /\ gen' = gen
           /\ yielded' = yielded
           /\ lines' = lines
           /\ reads' = reads
           /\ readsIssued' = readsIssued
           /\ readerLocked' = readerLocked
           /\ lastPull' = "done"]_vars

\* a generator that failed on a malformed frame after one view, pulled again:
\* the pull reported done
C18_Witness ==
  /\ IsStream
  /\ gen.state = "completed"
  /\ gen.exit = "error"
  /\ Len(yielded) = 1
  /\ reads # <<>>
  /\ lastPull = "done"

\* ------------------------------------------------------------------- C19
IsPrefix(a, b) == Len(a) <= Len(b) /\ a = SubSeq(b, 1, Len(a))

\* the sequence of the first call, by itself
FirstAlone == Consume(response.body.chunks)

\* the sequence of the second call, by itself
PeerAlone == Consume(peer.chunks)

\* C19: of two streaming sequences of one adapter pulled in any interleaving,
\* each has issued its own request, holds unread chunks of its own stream only,
\* has at every moment yielded a prefix of the views it yields alone and, once
\* run to its end, exactly those views with the same outcome; and no step of
\* one changes the generator, the segments, the reads or the views of the other.
C19_SequencesIndependent ==
  /\ [](IsStream
        => /\ Len(requests) = 1 + (IF peer.state = "none" THEN 0 ELSE 1)
           /\ requests[1] = RequestBody(request, TRUE)
           /\ peer.state # "none" => requests[2] = RequestBody(PeerRequest, TRUE)
           /\ IsSuffix(peer.reads, peer.chunks)
           /\ IsPrefix(peer.yielded, PeerAlone.views)
           /\ peer.state = "completed"
              => /\ peer.yielded = PeerAlone.views
                 /\ peer.exit = PeerAlone.exit
                 /\ peer.error = PeerAlone.error
           /\ result.state = "returned"
              => /\ IsSuffix(reads, response.body.chunks)
                 /\ IsPrefix(yielded, FirstAlone.views)
                 /\ RanToEnd => /\ yielded = FirstAlone.views
                                /\ gen.exit = FirstAlone.exit
                                /\ gen.error = FirstAlone.error)
  /\ [][/\ peer' # peer
           => <<result, gen, lines, reads, readsIssued, yielded>>'
              = <<result, gen, lines, reads, readsIssued, yielded>>
        /\ (IsStream /\ <<gen, lines, reads, readsIssued, yielded>>'
                        # <<gen, lines, reads, readsIssued, yielded>>)
           => peer' = peer /\ requests' = requests]_vars

\* the first sequence has failed on a malformed frame after one view while the
\* second, past its first view, is still under way with a chunk unread
C19_Witness ==
  /\ IsStream
  /\ gen.exit = "error"
  /\ Len(yielded) = 1
  /\ reads # <<>>
  /\ peer.state = "suspendedYield"
  /\ Len(peer.yielded) = 2
  /\ peer.reads # <<>>
  /\ Len(requests) = 2

\* ------------------------------------------------------------------- C20
\* C20: whatever the payload of the view, every iterator obtained from it
\* answers its first next() with the view itself and done false, and every
\* later next() with done true: one element, then the end, for each iterator
\* independently of the others.
C20_IteratesItselfOnce ==
  \A k \in 1..Len(iters) :
    /\ iters[k].self = returned[1]
    /\ \A j \in 1..Len(iters[k].out) :
         /\ iters[k].out[j].value = returned[1]
         /\ iters[k].out[j].done = (j > 1)

\* a view of two choices with two iterators: one was stepped three times, the
\* other once since
C20_Witness ==
  /\ Len(returned) = 1
  /\ Len(returned[1].data.choices) = 2
  /\ Len(iters) = 2
  /\ Len(iters[1].out) = 3
  /\ iters[1].out[1].done = FALSE
  /\ iters[1].out[3].done = TRUE
  /\ Len(iters[2].out) = 1
  /\ iters[2].out[1] = [value |-> returned[1], done |-> FALSE]

====
